---- MODULE Spec2Model ----
(***************************************************************************)
(* StructuredGridFilters.concatenate and extract_subset of pyvista         *)
(* (pyvista/core/filters, unstructuredgridfilters.py), modelled on         *)
(* in-memory grids.  An n-dimensional numpy array is a record              *)
(* [shape, data] whose data is the element sequence in Fortran (first      *)
(* index fastest) order; coordinates, field values and tolerances are      *)
(* integers, and numpy's default relative tolerance 1e-05 is kept as the   *)
(* exact rational 1 / RTolInv.                                             *)
(***************************************************************************)
EXTENDS Integers, Sequences, FiniteSets, TLC

VARIABLES dataset, other, axis, tolerance, grid, joined, pc

vars == <<dataset, other, axis, tolerance, grid, joined, pc>>

-----------------------------------------------------------------------------
(* Bounds of the model *)

\* points along one axis of an input grid of concatenate: 1..MaxDim
MaxDim == 2

\* points along one axis of the grid that extract_subset splits: 1..MaxGridDim
MaxGridDim == 3

\* a seam coordinate of `other` is displaced by 0..MaxDelta
MaxDelta == 2

\* tolerance argument: 0..MaxTol
MaxTol == 1

(* Program constants *)

\* np.allclose is called without rtol, so rtol = 1e-05 = 1 / RTolInv
RTolInv == 100000

\* lattice spacing of the generated grids, in coordinate units
Spacing == RTolInv

-----------------------------------------------------------------------------
(* numpy arrays: [shape |-> <<d1, ..., dn>>, data |-> Fortran-order elements] *)

Abs(x) == IF x < 0 THEN 0 - x ELSE x

RECURSIVE Stride(_, _)
\* number of elements spanned by one step along (1-based) dimension d
Stride(shape, d) == IF d = 1 THEN 1 ELSE Stride(shape, d - 1) * shape[d - 1]

Size(shape) == Stride(shape, Len(shape) + 1)

RemoveAt(s, d) == [n \in 1..(Len(s) - 1) |-> IF n < d THEN s[n] ELSE s[n + 1]]

\* numpy accepts axis in -ndim..ndim-1 and raises AxisError otherwise
AxisInRange(ax, ndim) == ax >= 0 - ndim /\ ax <= ndim - 1

\* the 1-based dimension a numpy axis argument names
AxisDim(ax, ndim) == (IF ax < 0 THEN ax + ndim ELSE ax) + 1

\* np.take(A, indices=ind, axis=ax) for a scalar index (negative counts from the end)
np_take(A, ind, ax) ==
    LET d  == AxisDim(ax, Len(A.shape))
        S  == Stride(A.shape, d)
        D  == A.shape[d]
        i  == IF ind < 0 THEN ind + D ELSE ind
        ns == RemoveAt(A.shape, d)
    IN  [shape |-> ns,
         data  |-> [m \in 1..Size(ns) |->
                      A.data[1 + ((m - 1) % S) + S * (i + D * ((m - 1) \div S))]]]

\* A[..., 0:-1, ...]: slice(0, -1, None) along (1-based) dimension d
DropLast(A, d) ==
    LET S  == Stride(A.shape, d)
        D  == A.shape[d]
        D2 == IF D > 0 THEN D - 1 ELSE 0
        ns == [A.shape EXCEPT ![d] = D2]
    IN  [shape |-> ns,
         data  |-> [m \in 1..Size(ns) |->
                      A.data[1 + ((m - 1) % S)
                               + S * ((((m - 1) \div S) % D2) + D * ((m - 1) \div (S * D2)))]]]

\* A[slice_spec]: a list of three slices indexes the first three dimensions
Index(A, spec) ==
    LET A1 == IF spec[1] = "0:-1" THEN DropLast(A, 1) ELSE A
        A2 == IF spec[2] = "0:-1" THEN DropLast(A1, 2) ELSE A1
    IN  IF spec[3] = "0:-1" THEN DropLast(A2, 3) ELSE A2

\* np.concatenate raises ValueError unless all dimensions but the axis agree
ConcatShapesOK(A, B, ax) ==
    /\ Len(A.shape) = Len(B.shape)
    /\ \A n \in 1..Len(A.shape) :
          n # AxisDim(ax, Len(A.shape)) => A.shape[n] = B.shape[n]

\* np.concatenate((A, B), axis=ax)
np_concatenate(A, B, ax) ==
    LET d  == AxisDim(ax, Len(A.shape))
        S  == Stride(A.shape, d)
        DA == A.shape[d]
        DB == B.shape[d]
        DN == DA + DB
        ns == [A.shape EXCEPT ![d] = DN]
    IN  [shape |-> ns,
         data  |-> [m \in 1..Size(ns) |->
                      LET lo == (m - 1) % S
                          t  == ((m - 1) \div S) % DN
                          hi == (m - 1) \div (S * DN)
                      IN  IF t < DA
                          THEN A.data[1 + lo + S * (t + DA * hi)]
                          ELSE B.data[1 + lo + S * ((t - DA) + DB * hi)]]]

\* A.reshape(newshape, order='F'): the Fortran-order element sequence is kept
reshape_F(A, newshape) == [shape |-> newshape, data |-> A.data]

\* A.ravel(order='C') of a 3-D array: last index fastest
ravel_C(A) ==
    LET n1 == A.shape[1]
        n2 == A.shape[2]
        n3 == A.shape[3]
    IN  [m \in 1..Size(A.shape) |->
           LET i3 == (m - 1) % n3
               i2 == ((m - 1) \div n3) % n2
               i1 == (m - 1) \div (n3 * n2)
           IN  A.data[1 + i1 + n1 * (i2 + n2 * i3)]]

\* A.ravel(order='F')
ravel_F(A) == A.data

\* np.allclose(A, B, atol=atol): |a - b| <= atol + rtol * |b| element-wise.
\* On integers, d <= atol + |b| / RTolInv exactly when d <= atol + (|b| \div RTolInv).
allclose(A, B, atol) ==
    /\ A.shape = B.shape
    /\ \A m \in 1..Len(A.data) :
          Abs(A.data[m] - B.data[m]) <= atol + (Abs(B.data[m]) \div RTolInv)

\* np.array_equal(A, B)
array_equal(A, B) == A.shape = B.shape /\ A.data = B.data

-----------------------------------------------------------------------------
(* Grids: [id, dimensions, points, point_arrays, cell_arrays].  points is   *)
(* the (N, 3) coordinate array as a sequence of N rows <<x, y, z>>; the     *)
(* arrays map a name to its flat value sequence.                            *)

NoGrid == [id |-> 0, dimensions |-> <<0, 0, 0>>, points |-> <<>>,
           point_arrays |-> <<>>, cell_arrays |-> <<>>]

\* order in which the arrays of a grid were added (dict iteration order)
KeyOrder == <<"a", "b", "c">>

KeyIndex(name) == CHOOSE n \in 1..Len(KeyOrder) : KeyOrder[n] = name

\* number of points / cells a grid of these dimensions has
n_points(dims) == dims[1] * dims[2] * dims[3]

cell_dims(dims) == [n \in 1..3 |-> IF dims[n] - 1 = 0 THEN 1 ELSE dims[n] - 1]

n_cells(dims) == Size(cell_dims(dims))

\* grid.points as an (N, 3) numpy array
points_array(g) ==
    LET N == Len(g.points)
    IN  [shape |-> <<N, 3>>,
         data  |-> [m \in 1..(3 * N) |-> g.points[((m - 1) % N) + 1][((m - 1) \div N) + 1]]]

\* rows of an (N, 3) numpy array
Rows(A) ==
    LET N == A.shape[1]
    IN  [n \in 1..N |-> <<A.data[n], A.data[N + n], A.data[2 * N + n]>>]

\* StructuredGrid.points_matrix: points.reshape((*dimensions, 3), order='F')
points_matrix(g) == reshape_F(points_array(g), g.dimensions \o <<3>>)

\* StructuredGrid._reshape_point_array: array.reshape(dimensions, order='F')
reshape_point_array(g, array) == [shape |-> g.dimensions, data |-> array]

\* StructuredGrid._reshape_cell_array: array.reshape(cell_dims, order='F')
reshape_cell_array(g, array) == [shape |-> cell_dims(g.dimensions), data |-> array]

-----------------------------------------------------------------------------
(* StructuredGridFilters.concatenate *)

Raise(kind, field) == [status |-> "error", error |-> kind, field |-> field, grid |-> NoGrid]

Return(g) == [status |-> "grid", error |-> "", field |-> "", grid |-> g]

NoResult == [status |-> "none", error |-> "", field |-> "", grid |-> NoGrid]

\* if axis > 2: raise
AxisTooLarge(ax) == ax > 2

\* variant: the loop compares every axis, the concatenation axis included
DimensionsCompatible_NoSkip(d, o, ax) ==
    \A i \in 0..2 : d.dimensions[i + 1] = o.dimensions[i + 1]

\* the loop over zip(dataset.dimensions, other.dimensions) skipping i == axis
DimensionsCompatible(d, o, ax) ==
    \A i \in 0..2 : i = ax \/ d.dimensions[i + 1] = o.dimensions[i + 1]

\* variant: only dataset's names are looked up in other
SamePointArrayNames_Subset(d, o) == DOMAIN d.point_arrays \subseteq DOMAIN o.point_arrays

SamePointArrayNames(d, o) == DOMAIN d.point_arrays = DOMAIN o.point_arrays

SameCellArrayNames(d, o) == DOMAIN d.cell_arrays = DOMAIN o.cell_arrays

\* np.allclose(np.take(dataset.points_matrix, -1, axis),
\*             np.take(other.points_matrix, 0, axis), atol=tolerance)
SeamCoincident(d, o, ax, tol) ==
    allclose(np_take(points_matrix(d), 0 - 1, ax), np_take(points_matrix(o), 0, ax), tol)

\* variant: the repeated face is not cut off
slice_spec_Full(ax) == [n \in 1..3 |-> ":"]

\* slice_spec = [slice(None)] * 3; slice_spec[axis] = slice(0, -1, None)
slice_spec(ax) == [n \in 1..3 |-> IF n = AxisDim(ax, 3) THEN "0:-1" ELSE ":"]

\* np.concatenate((dataset.points_matrix[slice_spec], other.points_matrix), axis=axis)
new_points(d, o, ax) ==
    np_concatenate(Index(points_matrix(d), slice_spec(ax)), points_matrix(o), ax)

\* variant: the first layer of arr_1 is compared instead of the last
PointSeamEqual_FirstLayer(d, o, ax, name) ==
    array_equal(np_take(reshape_point_array(d, d.point_arrays[name]), 0, ax),
                np_take(reshape_point_array(o, o.point_arrays[name]), 0, ax))

\* np.array_equal(np.take(arr_1, -1, axis), np.take(arr_2, 0, axis))
PointSeamEqual(d, o, ax, name) ==
    array_equal(np_take(reshape_point_array(d, d.point_arrays[name]), 0 - 1, ax),
                np_take(reshape_point_array(o, o.point_arrays[name]), 0, ax))

\* variant: the concatenated array is flattened in C order
new_point_array_C(d, o, ax, name) ==
    ravel_C(np_concatenate(Index(reshape_point_array(d, d.point_arrays[name]), slice_spec(ax)),
                           reshape_point_array(o, o.point_arrays[name]), ax))

\* np.concatenate((arr_1[slice_spec], arr_2), axis=axis).ravel(order='F')
new_point_array(d, o, ax, name) ==
    ravel_F(np_concatenate(Index(reshape_point_array(d, d.point_arrays[name]), slice_spec(ax)),
                           reshape_point_array(o, o.point_arrays[name]), ax))

\* variant: the seam layer is counted twice
new_dims_NoSeam(d, o, ax) ==
    [new |-> [d.dimensions EXCEPT ![ax + 1] = @ + o.dimensions[ax + 1]],
     dataset_dimensions |-> d.dimensions]

\* variant: new_dims aliases dataset.dimensions, so += writes through to the input
new_dims_Alias(d, o, ax) ==
    [new |-> [d.dimensions EXCEPT ![ax + 1] = @ + o.dimensions[ax + 1] - 1],
     dataset_dimensions |-> [d.dimensions EXCEPT ![ax + 1] = @ + o.dimensions[ax + 1] - 1]]

\* new_dims = np.array(dataset.dimensions); new_dims[axis] += other.dimensions[axis] - 1
\* (np.array copies, so dataset.dimensions keeps its value)
new_dims(d, o, ax) ==
    [new |-> [d.dimensions EXCEPT ![ax + 1] = @ + o.dimensions[ax + 1] - 1],
     dataset_dimensions |-> d.dimensions]

\* np.concatenate((arr_1, arr_2), axis=axis).ravel(order='F') of the reshaped cell arrays
new_cell_array(d, o, ax, name) ==
    ravel_F(np_concatenate(reshape_cell_array(d, d.cell_arrays[name]),
                           reshape_cell_array(o, o.cell_arrays[name]), ax))

\* joined = pyvista.StructuredGrid(): a new object
FreshId(d, o) == (IF d.id > o.id THEN d.id ELSE o.id) + 1

\* the assembled output grid
Assemble(d, o, ax) ==
    LET np == new_points(d, o, ax)
    IN  [id           |-> FreshId(d, o),
         dimensions   |-> new_dims(d, o, ax).new,
         points       |-> Rows(reshape_F(np, <<Size(np.shape) \div 3, 3>>)),
         point_arrays |-> [name \in DOMAIN d.point_arrays |-> new_point_array(d, o, ax, name)],
         cell_arrays  |-> [name \in DOMAIN d.cell_arrays |-> new_cell_array(d, o, ax, name)]]

\* point arrays, in iteration order, whose values differ along the seam
BadSeamFields(d, o, ax) == {name \in DOMAIN d.point_arrays : ~PointSeamEqual(d, o, ax, name)}

FirstKey(names) == CHOOSE name \in names : \A x \in names : KeyIndex(name) <= KeyIndex(x)

\* what the call returns or raises
Outcome(d, o, ax, tol) ==
    IF AxisTooLarge(ax) THEN Raise("InvalidAxis", "")
    ELSE IF ~DimensionsCompatible(d, o, ax) THEN Raise("DimensionMismatch", "")
    ELSE IF ~SamePointArrayNames(d, o) THEN Raise("PointNameMismatch", "")
    ELSE IF ~SameCellArrayNames(d, o) THEN Raise("CellNameMismatch", "")
    ELSE IF ~AxisInRange(ax, 4) THEN Raise("AxisError", "")
    ELSE IF ~SeamCoincident(d, o, ax, tol) THEN Raise("SeamCoincidence", "")
    ELSE IF ~AxisInRange(ax, 3) THEN Raise("IndexError", "")
    ELSE IF ~ConcatShapesOK(Index(points_matrix(d), slice_spec(ax)), points_matrix(o), ax)
         THEN Raise("ValueError", "")
    ELSE IF BadSeamFields(d, o, ax) # {}
         THEN Raise("SeamField", FirstKey(BadSeamFields(d, o, ax)))
    ELSE Return(Assemble(d, o, ax))

\* the call: its outcome and the two input objects as the call leaves them
concatenate(d, o, ax, tol) ==
    LET out == Outcome(d, o, ax, tol)
    IN  [joined  |-> out,
         dataset |-> IF out.status = "grid"
                     THEN [d EXCEPT !.dimensions = new_dims(d, o, ax).dataset_dimensions]
                     ELSE d,
         other   |-> o]

-----------------------------------------------------------------------------
(* StructuredGridFilters.extract_subset with the default rate (1, 1, 1) *)

\* the VOI <<imin, imax, jmin, jmax, kmin, kmax>> clipped to the grid's extent
ClipVOI(g, voi) ==
    [n \in 1..6 |->
        LET top == g.dimensions[(n + 1) \div 2] - 1
        IN  IF voi[n] < 0 THEN 0 ELSE IF voi[n] > top THEN top ELSE voi[n]]

\* vtkExtractGrid: the points, point data and cell data inside the VOI
extract_subset(g, voi, id) ==
    LET v    == ClipVOI(g, voi)
        dims == <<v[2] - v[1] + 1, v[4] - v[3] + 1, v[6] - v[5] + 1>>
        gd   == g.dimensions
        cd   == cell_dims(gd)
        sc   == cell_dims(dims)
        \* flat index in g of the point with local index m - 1
        P(m) == LET i == (m - 1) % dims[1]
                    j == ((m - 1) \div dims[1]) % dims[2]
                    k == (m - 1) \div (dims[1] * dims[2])
                IN  1 + (v[1] + i) + gd[1] * ((v[3] + j) + gd[2] * (v[5] + k))
        \* a cell index of g, kept inside g's cells on a degenerate axis
        In(c, n) == IF c > cd[n] - 1 THEN cd[n] - 1 ELSE c
        C(m) == LET i == (m - 1) % sc[1]
                    j == ((m - 1) \div sc[1]) % sc[2]
                    k == (m - 1) \div (sc[1] * sc[2])
                IN  1 + In(v[1] + i, 1) + cd[1] * (In(v[3] + j, 2) + cd[2] * In(v[5] + k, 3))
    IN  [id           |-> id,
         dimensions   |-> dims,
         points       |-> [m \in 1..n_points(dims) |-> g.points[P(m)]],
         point_arrays |-> [name \in DOMAIN g.point_arrays |->
                             [m \in 1..n_points(dims) |-> g.point_arrays[name][P(m)]]],
         cell_arrays  |-> [name \in DOMAIN g.cell_arrays |->
                             [m \in 1..n_cells(dims) |-> g.cell_arrays[name][C(m)]]]]

\* the VOI of all layers lo..hi along axis ax (0-based) and everything across
LayersVOI(g, ax, lo, hi) ==
    [n \in 1..6 |->
        IF (n + 1) \div 2 = ax + 1
        THEN (IF n % 2 = 1 THEN lo ELSE hi)
        ELSE (IF n % 2 = 1 THEN 0 ELSE g.dimensions[(n + 1) \div 2])]

-----------------------------------------------------------------------------
(* Input grids *)

\* axis arguments: every axis below -4 fails in np.take as -5 does, and every
\* axis above 2 is refused as 3 is
Axes == (0 - 5)..3

Tolerances == 0..MaxTol

DimSet(max) == {<<a, b, c>> : a \in 1..max, b \in 1..max, c \in 1..max}

\* value of a named array at the lattice position <<gi, gj, gk>>
FieldValue(name, gi, gj, gk) ==
    IF name = "a" THEN 1 + gi + 10 * gj + 100 * gk
    ELSE IF name = "b" THEN 2000 + gk + 10 * gj + 100 * gi
    ELSE 5000 + gi + 10 * gj + 100 * gk

\* a grid on the regular lattice, its first point at lattice position off
LatticeGrid(id, dims, off, pnames, cnames) ==
    LET cd == cell_dims(dims)
        val(name, m, sh) ==
            FieldValue(name, off[1] + ((m - 1) % sh[1]),
                             off[2] + (((m - 1) \div sh[1]) % sh[2]),
                             off[3] + ((m - 1) \div (sh[1] * sh[2])))
    IN  [id           |-> id,
         dimensions   |-> dims,
         points       |-> [m \in 1..n_points(dims) |->
                             <<Spacing * (off[1] + ((m - 1) % dims[1])),
                               Spacing * (off[2] + (((m - 1) \div dims[1]) % dims[2])),
                               Spacing * (off[3] + ((m - 1) \div (dims[1] * dims[2])))>>],
         point_arrays |-> [name \in pnames |-> [m \in 1..n_points(dims) |-> val(name, m, dims)]],
         cell_arrays  |-> [name \in cnames |-> [m \in 1..n_cells(dims) |-> val(name, m, cd)]]]

\* how the two grids depart from a grid with arrays a, b (point) and c (cell)
\* and its exact continuation
Defects ==
    {[kind |-> "none", at |-> "first", c |-> 1, delta |-> 0, name |-> "a"],
     [kind |-> "no_arrays", at |-> "first", c |-> 1, delta |-> 0, name |-> "a"]}
    \cup [kind : {"point"}, at : {"first", "last"}, c : 1..3, delta : 1..MaxDelta, name : {"a"}]
    \cup [kind : {"value"}, at : {"first", "last"}, c : {1}, delta : {1}, name : {"a", "b", "ab"}]
    \cup [kind : {"drop_from_dataset", "drop_from_other"}, at : {"first"}, c : {1},
          delta : {0}, name : {"a", "b", "c"}]

Without(arrays, name) == [n \in (DOMAIN arrays) \ {name} |-> arrays[n]]

ApplyToOther(g, f) ==
    LET at == IF f.at = "first" THEN 1 ELSE Len(g.points)
    IN  IF f.kind = "point"
        THEN [g EXCEPT !.points[at][f.c] = @ + f.delta]
        ELSE IF f.kind = "value" /\ f.name = "ab"
        THEN [g EXCEPT !.point_arrays["a"][at] = @ + f.delta,
                       !.point_arrays["b"][at] = @ + f.delta]
        ELSE IF f.kind = "value"
        THEN [g EXCEPT !.point_arrays[f.name][at] = @ + f.delta]
        ELSE IF f.kind = "drop_from_other"
        THEN [g EXCEPT !.point_arrays = Without(@, f.name), !.cell_arrays = Without(@, f.name)]
        ELSE g

ApplyToDataset(g, f) ==
    IF f.kind = "drop_from_dataset"
    THEN [g EXCEPT !.point_arrays = Without(@, f.name), !.cell_arrays = Without(@, f.name)]
    ELSE g

PointNames(f) == IF f.kind = "no_arrays" THEN {} ELSE {"a", "b"}

CellNames(f) == IF f.kind = "no_arrays" THEN {} ELSE {"c"}

\* the first grid: a lattice grid at the origin
FirstGrid(dims, f) ==
    ApplyToDataset(LatticeGrid(1, dims, <<0, 0, 0>>, PointNames(f), CellNames(f)), f)

\* the second grid: v layers continuing the first along dimension m, with a defect
SecondGrid(dims, m, v, f) ==
    ApplyToOther(LatticeGrid(2, [dims EXCEPT ![m] = v],
                             [n \in 1..3 |-> IF n = m THEN dims[m] - 1 ELSE 0],
                             PointNames(f), CellNames(f)), f)

-----------------------------------------------------------------------------
(* Specification: concatenate applied to two grids *)

Init ==
    \E dims \in DimSet(MaxDim), m \in 1..3, v \in 1..MaxDim, f \in Defects :
        /\ dataset = FirstGrid(dims, f)
        /\ other = SecondGrid(dims, m, v, f)
        /\ axis \in Axes
        /\ tolerance \in Tolerances
        /\ grid = NoGrid
        /\ joined = NoResult
        /\ pc = "ready"

\* joined = dataset.concatenate(other, axis, tolerance)
Concatenate ==
    /\ pc = "ready"
    /\ LET r == concatenate(dataset, other, axis, tolerance)
       IN  /\ joined' = r.joined
           /\ dataset' = r.dataset
           /\ other' = r.other
    /\ pc' = "done"
    /\ UNCHANGED <<axis, tolerance, grid>>

Next == Concatenate

Spec == Init /\ [][Next]_vars

-----------------------------------------------------------------------------
(* Specification: a grid split by extract_subset and joined again *)

InitSplit ==
    \E dims \in DimSet(MaxGridDim), f \in {x \in Defects : x.kind \in {"none", "no_arrays"}} :
        /\ grid = LatticeGrid(1, dims, <<0, 0, 0>>, PointNames(f), CellNames(f))
        /\ dataset = NoGrid
        /\ other = NoGrid
        /\ axis = 0
        /\ tolerance = 0
        /\ joined = NoResult
        /\ pc = "loaded"

\* voi_1 = grid.extract_subset(...); voi_2 = grid.extract_subset(...): the layers
\* 0..s and s..end along axis ax, s an interior layer
ExtractSubsets ==
    /\ pc = "loaded"
    /\ \E ax \in 0..2, tol \in Tolerances :
         \E s \in 1..(grid.dimensions[ax + 1] - 2) :
            /\ dataset' = extract_subset(grid, LayersVOI(grid, ax, 0, s), 2)
            /\ other' = extract_subset(grid, LayersVOI(grid, ax, s, grid.dimensions[ax + 1]), 3)
            /\ axis' = ax
            /\ tolerance' = tol
    /\ pc' = "ready"
    /\ UNCHANGED <<grid, joined>>

NextSplit == ExtractSubsets \/ Concatenate

SpecSplit == InitSplit /\ [][NextSplit]_vars

-----------------------------------------------------------------------------
(* Vocabulary of the properties, stated on the grids themselves *)

Done == pc = "done"

Raised(kind) == joined.status = "error" /\ joined.error = kind

Returned == joined.status = "grid"

ValidAxis == axis \in 0..2

Box(dims) == {<<i, j, k>> : i \in 0..(dims[1] - 1), j \in 0..(dims[2] - 1), k \in 0..(dims[3] - 1)}

\* position of lattice index idx in the column-major storage of a grid
Pos(g, idx) == 1 + idx[1] + g.dimensions[1] * (idx[2] + g.dimensions[2] * idx[3])

\* the other two axes of the inputs agree
OtherAxesAgree == \A a \in (0..2) \ {axis} : dataset.dimensions[a + 1] = other.dimensions[a + 1]

PointNamesAgree == DOMAIN dataset.point_arrays = DOMAIN other.point_arrays

CellNamesAgree == DOMAIN dataset.cell_arrays = DOMAIN other.cell_arrays

\* lattice indices of dataset's last layer along axis
LastLayer == {idx \in Box(dataset.dimensions) : idx[axis + 1] = dataset.dimensions[axis + 1] - 1}

\* the index of other's first layer facing idx
Facing(idx) == [idx EXCEPT ![axis + 1] = 0]

\* some seam coordinate differs by more than the tolerance
SeamGapExceeds ==
    \E idx \in LastLayer, c \in 1..3 :
        Abs(dataset.points[Pos(dataset, idx)][c] - other.points[Pos(other, Facing(idx))][c])
            > tolerance

\* point arrays whose values differ somewhere on the seam
SeamDiffFields ==
    {name \in DOMAIN dataset.point_arrays :
        \E idx \in LastLayer :
            dataset.point_arrays[name][Pos(dataset, idx)]
                # other.point_arrays[name][Pos(other, Facing(idx))]}

\* the Grid invariant: one point and one value of every point array per lattice
\* index, one value of every cell array per cell
GridInvariant(g) ==
    /\ Len(g.points) = g.dimensions[1] * g.dimensions[2] * g.dimensions[3]
    /\ \A name \in DOMAIN g.point_arrays :
          Len(g.point_arrays[name]) = g.dimensions[1] * g.dimensions[2] * g.dimensions[3]
    /\ \A name \in DOMAIN g.cell_arrays :
          Len(g.cell_arrays[name]) =
              (IF g.dimensions[1] > 1 THEN g.dimensions[1] - 1 ELSE 1)
            * (IF g.dimensions[2] > 1 THEN g.dimensions[2] - 1 ELSE 1)
            * (IF g.dimensions[3] > 1 THEN g.dimensions[3] - 1 ELSE 1)

-----------------------------------------------------------------------------
(* Properties *)

\* C1: when concatenate returns a grid, its dimension along axis is the sum of
\* the inputs' dimensions along axis minus one, and its dimensions on the
\* other two axes are dataset's.
Thm_C1_Dimensions ==
    (Done /\ Returned) =>
        /\ ValidAxis
        /\ joined.grid.dimensions[axis + 1]
              = dataset.dimensions[axis + 1] + other.dimensions[axis + 1] - 1
        /\ \A a \in (0..2) \ {axis} : joined.grid.dimensions[a + 1] = dataset.dimensions[a + 1]

Wit_C1_Dimensions ==
    /\ Done /\ Returned
    /\ dataset.dimensions[axis + 1] = 2
    /\ other.dimensions[axis + 1] = 2
    /\ joined.grid.dimensions[axis + 1] = 3

\* C2: a grid split at an interior layer s into layers 0..s and s..end along an
\* axis, and joined again along that axis, comes back with the dimensions and
\* the points (in the same order) of the original grid.
Thm_C2_RoundTrip ==
    Done =>
        /\ Returned
        /\ joined.grid.dimensions = grid.dimensions
        /\ joined.grid.points = grid.points

Wit_C2_RoundTrip ==
    /\ Done /\ Returned
    /\ axis = 1
    /\ grid.dimensions = <<2, 3, 2>>
    /\ dataset.dimensions = <<2, 2, 2>>
    /\ other.dimensions = <<2, 2, 2>>

\* C3: with an axis outside {0, 1, 2}, negative ones included, concatenate
\* always signals the invalid-axis error and never returns a grid.
CE_C3_InvalidAxis ==
    (Done /\ ~ValidAxis) => Raised("InvalidAxis")

\* C4: with a valid axis, agreeing other-axis dimensions and agreeing array
\* names, the seam-coincidence error is signalled exactly when some coordinate
\* of a point of dataset's last layer differs from that of the facing point of
\* other's first layer by more than tolerance.
CE_C4_SeamTolerance ==
    (Done /\ ValidAxis /\ OtherAxesAgree /\ PointNamesAgree /\ CellNamesAgree) =>
        (Raised("SeamCoincidence") <=> SeamGapExceeds)

\* C5: with a valid axis, the dimension-mismatch error is signalled (and no
\* grid returned) exactly when the inputs' dimensions differ on an axis other
\* than the concatenation axis; a difference on the concatenation axis alone
\* never causes it.
Thm_C5_DimensionMismatch ==
    (Done /\ ValidAxis) => (Raised("DimensionMismatch") <=> ~OtherAxesAgree)

Wit_C5_DimensionMismatch ==
    /\ Done /\ axis = 0
    /\ dataset.dimensions = <<2, 2, 1>>
    /\ other.dimensions = <<2, 1, 1>>
    /\ Raised("DimensionMismatch")

\* C6 as stated: whenever the point-array name sets differ, concatenate
\* signals the point-name-mismatch error.
CE_C6_PointNames ==
    (Done /\ ~PointNamesAgree) => Raised("PointNameMismatch")

\* C6 amended: when the point-array name sets differ, no seam error is ever
\* reported, and with a valid axis and agreeing other-axis dimensions the
\* point-name-mismatch error is signalled.
Thm_C6_PointNames ==
    (Done /\ ~PointNamesAgree) =>
        /\ ~Raised("SeamCoincidence")
        /\ ~Raised("SeamField")
        /\ ~Returned
        /\ (ValidAxis /\ OtherAxesAgree) => Raised("PointNameMismatch")

Wit_C6_PointNames ==
    /\ Done /\ ValidAxis /\ OtherAxesAgree
    /\ "a" \in DOMAIN other.point_arrays
    /\ "a" \notin DOMAIN dataset.point_arrays
    /\ SeamGapExceeds
    /\ Raised("PointNameMismatch")

\* C7: when the axis, dimension, name and seam-coincidence validations pass,
\* the field-seam error is signalled, naming a differing field, exactly when
\* some point array has a value on dataset's last layer that is not equal to
\* the facing value on other's first layer; otherwise a grid is returned.
\* Equality is exact for every tolerance.
Thm_C7_SeamField ==
    (/\ Done /\ ValidAxis /\ OtherAxesAgree /\ PointNamesAgree /\ CellNamesAgree
     /\ ~Raised("SeamCoincidence")) =>
        IF SeamDiffFields = {}
        THEN Returned
        ELSE Raised("SeamField") /\ joined.field \in SeamDiffFields

Wit_C7_SeamField ==
    /\ Done /\ ValidAxis
    /\ tolerance > 0
    /\ SeamDiffFields = {"b"}
    /\ Raised("SeamField")
    /\ joined.field = "b"

\* C8: a grid returned by concatenate for inputs that satisfy the Grid
\* invariant satisfies it too, also when an input has dimension 1 along axis.
CE_C8_GridInvariant ==
    (Done /\ Returned /\ GridInvariant(dataset) /\ GridInvariant(other)) =>
        GridInvariant(joined.grid)

\* C9: the call leaves both input grids as they were, whether it returns or
\* raises, and a returned grid is a new object, neither of the inputs.
Thm_C9_InputsUnchanged ==
    [][(pc = "ready" /\ pc' = "done") =>
          /\ dataset' = dataset
          /\ other' = other
          /\ joined'.status = "grid" => joined'.grid.id \notin {dataset.id, other.id}]_vars

Wit_C9_InputsUnchanged ==
    /\ Done /\ Returned
    /\ other.dimensions[axis + 1] > 1
    /\ dataset.id = 1 /\ other.id = 2

\* C10: in a returned grid the point and the value of every point array at
\* lattice index (i, j, k) are dataset's at that index when the index along
\* axis is below d - 1 (d dataset's dimension along axis), and other's at the
\* index moved back by d - 1 along axis otherwise, stored column-major.
Thm_C10_Layout ==
    (Done /\ Returned) =>
        /\ ValidAxis
        /\ Len(joined.grid.points) = Cardinality(Box(joined.grid.dimensions))
        /\ DOMAIN joined.grid.point_arrays = DOMAIN dataset.point_arrays
        /\ \A idx \in Box(joined.grid.dimensions) :
              LET d    == dataset.dimensions[axis + 1]
                  low  == idx[axis + 1] < d - 1
                  back == [idx EXCEPT ![axis + 1] = @ - (d - 1)]
              IN  /\ joined.grid.points[Pos(joined.grid, idx)]
                        = IF low THEN dataset.points[Pos(dataset, idx)]
                                 ELSE other.points[Pos(other, back)]
                  /\ \A name \in DOMAIN dataset.point_arrays :
                        joined.grid.point_arrays[name][Pos(joined.grid, idx)]
                            = IF low THEN dataset.point_arrays[name][Pos(dataset, idx)]
                                     ELSE other.point_arrays[name][Pos(other, back)]

Wit_C10_Layout ==
    /\ Done /\ Returned
    /\ axis = 1
    /\ dataset.dimensions = <<2, 2, 2>>
    /\ other.dimensions = <<2, 2, 2>>
    /\ "b" \in DOMAIN joined.grid.point_arrays
    /\ other.points[1] # dataset.points[3]

====
